---- MODULE Spec2Model ----
(***************************************************************************)
(* The Bodhi masher (bodhi/masher.py): the push coordinator Masher.work,   *)
(* which partitions the updates of a push into one MasherThread per        *)
(* (release, request) and runs them in waves, and the MasherThread         *)
(* pipeline with its MASHING-<id> state file and its staging symlink.      *)
(***************************************************************************)
EXTENDS Naturals, Sequences, FiniteSets, TLC

\* ------------------------------------------------------------------ bounds

\* Longest list of titles in the body of a push message.
MaxBody == 3
\* Latest minute the clock of time.strftime("%y%m%d.%H%M") reaches.
MaxTime == 2
\* Longest list of tags build.get_tags() returns.
MaxTags == 2
\* Longest listing of the directory of the first architecture.
MaxPkgs == 2

\* ------------------------------------------------------------- the catalog

Titles == {"pkg-a", "pkg-b", "pkg-c"}
ReleaseOrder == <<"f29", "f30">>
RequestOrder == <<"stable", "testing">>
Releases == {ReleaseOrder[i] : i \in DOMAIN ReleaseOrder}
Requests == {RequestOrder[i] : i \in DOMAIN RequestOrder}
Types == {"security", "bugfix"}

\* session.query(Update).filter_by(title=title).first() returning None
NoUpdate == [release |-> "none", request |-> "none", type |-> "none"]
UpdateRecords == [release : Releases, request : Requests, type : Types]
Catalogs == [Titles -> UpdateRecords \cup {NoUpdate}]

\* Title lists of a push message: body['updates'].split()
RECURSIVE SeqsUpTo(_, _)
SeqsUpTo(S, n) ==
    IF n = 0 THEN {<<>>}
    ELSE LET shorter == SeqsUpTo(S, n - 1)
         IN  shorter \cup {Append(s, x) : s \in {t \in shorter : Len(t) = n - 1}, x \in S}
Bodies == SeqsUpTo(Titles, MaxBody)

Range(s) == {s[i] : i \in DOMAIN s}

\* A repo is named by its release and request; the thread's id is the
\* release's <request>_tag, one tag per (release, request).
Keys == Releases \X Requests
KeyOrder ==
    [i \in 1..(Len(ReleaseOrder) * Len(RequestOrder)) |->
        <<ReleaseOrder[((i - 1) \div Len(RequestOrder)) + 1],
          RequestOrder[((i - 1) % Len(RequestOrder)) + 1]>>]

\* Threads: those of this masher's push, and those another masher process
\* starts for an overlapping push of the same message.
OtherKeys == {<<"f29", "stable">>}
Workers == {<<"masher", key[1], key[2]>> : key \in Keys}
             \cup {<<"other", key[1], key[2]>> : key \in OtherKeys}
Id(w) == <<w[2], w[3]>>
Local(key) == <<"masher", key[1], key[2]>>
LocalWorkers == {w \in Workers : w[1] = "masher"}
OtherWorkers == {w \in Workers : w[1] = "other"}

\* ------------------------------------------------- releases, builds, tags

\* ReleaseState and UpdateStatus, as far as the masher tests them
ReleaseStates == {"pending", "current"}
Statuses == {"pending", "testing"}

\* update.builds: the nvrs of the builds of each update
builds ==
    [title \in Titles |->
        IF title = "pkg-a" THEN <<"a-1", "a-2">>
        ELSE IF title = "pkg-b" THEN <<"b-1">> ELSE <<"c-1">>]
Nvrs == UNION {Range(builds[title]) : title \in Titles}

\* A koji tag is named by its release and its role.
TagRoles == {"candidate", "testing", "stable"}
Tags == Releases \X TagRoles

\* Release.get_tags(): tag_types[role], the tags of that role of all releases
tag_types(role) == {tag \in Tags : tag[2] = role}

\* update.requested_tag: the release's stable_tag or testing_tag
requested_tag(update) == <<update.release, update.request>>

\* Every build in the candidate tag of its update's release.
CandidateTags ==
    [nvr \in Nvrs |->
        IF nvr = "c-1" THEN << <<"f30", "candidate">> >>
        ELSE << <<"f29", "candidate">> >>]

\* ----------------------------------------------- the working directory

\* config.get('arches').split(): each entry is one name, or an either/or
\* pair written 'one/other'
arches_conf == << <<"x86_64">>, <<"ppc", "ppc64">> >>
ArchDirs == {"x86_64", "ppc", "ppc64"}

\* A directory entry of <path>/<arch>: its name ends with .rpm or not, and
\* it is a symbolic link or not.
Files == {[rpm |-> TRUE, islink |-> FALSE], [rpm |-> TRUE, islink |-> TRUE],
          [rpm |-> FALSE, islink |-> FALSE]}
RealRpm == [rpm |-> TRUE, islink |-> FALSE]

\* What a mash leaves in the working directory: the entries os.listdir(path)
\* returns, in its order, and those of the first of them.
GoodTree == [arches |-> <<"x86_64", "ppc64">>, pkgs |-> <<RealRpm>>]

VARIABLES
    release_state,  \* release -> Release.state
    status,         \* title -> Update.status
    tags,           \* nvr -> the tags build.get_tags() returns, in order
    tree,           \* id -> what mash composes in the working directory
    db,             \* the catalog: title -> update (or NoUpdate)
    locked,         \* titles of the updates whose locked flag is set
    body,           \* the titles of the push message
    cpc,            \* where Masher.work is
    mashtaskStart,  \* number of mashtask.start notifications published
    releases,       \* organize_updates' result: key -> titles
    batches,        \* prioritize_updates' result: <<important, normal>>
    bi, ri, wi,     \* Masher.work's loops: batch, request, position in batch
    threads,        \* the threads of the current wave, in start order
    ji,             \* position of the join loop in threads
    started,        \* worker -> number of thread.start() calls
    pc,             \* worker -> where the thread is
    resume,         \* worker -> MasherThread.resume
    state,          \* worker -> MasherThread.state
    success,        \* worker -> the local variable success of work()
    caught,         \* worker -> the except clause of work() was entered
    staged,         \* worker -> stage_repo returned
    updates,        \* worker -> MasherThread.updates (titles)
    path,           \* worker -> MasherThread.path
    mashing,        \* workers that published mashtask.mashing
    complete,       \* worker -> the success values of its mashtask.complete
    raised,         \* worker -> the stage whose exception work() caught
    add_tags,       \* worker -> MasherThread.add_tags
    move_tags,      \* worker -> MasherThread.move_tags
    multicall,      \* worker -> the koji multicalls of perform_tag_actions
    mash_cmds,      \* the runs of the mash command: <<worker, outputdir>>
    mash_lock,      \* id -> content of the file MASHING-<id> (<<>>: no file)
    link,           \* id -> target of the symlink <stage_dir>/<id> (<<>>: none)
    now             \* the minute time.strftime returns

coordVars == <<cpc, mashtaskStart, releases, batches, bi, ri, wi, threads, ji>>
tagVars == <<add_tags, move_tags, multicall>>
threadVars == <<pc, resume, state, success, caught, staged, updates, path, mashing,
                complete, raised, tagVars, mash_cmds>>
fsVars == <<mash_lock, link>>
envVars == <<release_state, status, tags, tree>>
vars == <<envVars, db, locked, body, coordVars, started, threadVars, fsVars, now>>

\* --------------------------------------------------------- Masher (pure)

\* The update filed under its release alone, whatever it requests.
KeyOfReleaseOnly(update) == <<update.release, RequestOrder[1]>>

KeyOf(update) == <<update.release, update.request>>

\* organize_updates: fold of the title list into {release: {request: [update]}}
RECURSIVE OrganizeFrom(_, _, _)
OrganizeFrom(titles, catalog, acc) ==
    IF titles = <<>> THEN acc
    ELSE LET title == Head(titles)
             update == catalog[title]
         IN  IF update # NoUpdate
             THEN OrganizeFrom(Tail(titles), catalog,
                               [acc EXCEPT ![KeyOf(update)] = Append(@, title)])
             ELSE OrganizeFrom(Tail(titles), catalog, acc)

organize_updates(titles, catalog) ==
    OrganizeFrom(titles, catalog, [key \in Keys |-> <<>>])

\* the inner loop of prioritize_updates: some update of the repo is security
HasSecurity(repo, catalog) ==
    \E i \in DOMAIN repo : catalog[repo[i]].type = "security"

WorkUnit(key, rels) == [release |-> key[1], request |-> key[2], updates |-> rels[key]]

\* prioritize_updates: the repos in iteration order, split in two lists
RECURSIVE PrioritizeFrom(_, _, _, _)
PrioritizeFrom(i, rels, catalog, acc) ==
    IF i > Len(KeyOrder) THEN acc
    ELSE LET key == KeyOrder[i]
         IN  IF rels[key] = <<>>
             THEN PrioritizeFrom(i + 1, rels, catalog, acc)
             ELSE IF HasSecurity(rels[key], catalog)
                  THEN PrioritizeFrom(i + 1, rels, catalog,
                                      <<Append(acc[1], WorkUnit(key, rels)), acc[2]>>)
                  ELSE PrioritizeFrom(i + 1, rels, catalog,
                                      <<acc[1], Append(acc[2], WorkUnit(key, rels))>>)

\* The repos classified by release: important when any repo of the release
\* holds a security update.
prioritize_by_release(rels, catalog) ==
    LET Important(key) ==
            \E other \in Keys : other[1] = key[1] /\ HasSecurity(rels[other], catalog)
        present == SelectSeq(KeyOrder, LAMBDA key : rels[key] # <<>>)
        imp == SelectSeq(present, Important)
        norm == SelectSeq(present, LAMBDA key : ~Important(key))
    IN  <<[i \in DOMAIN imp |-> WorkUnit(imp[i], rels)],
          [i \in DOMAIN norm |-> WorkUnit(norm[i], rels)]>>

prioritize_updates(rels, catalog) == PrioritizeFrom(1, rels, catalog, <<<<>>, <<>>>>)

\* MasherThread.__init__: the state of a new thread
NewState(titles) == [tagged |-> FALSE, updates |-> titles, completed_repos |-> <<>>]

Terminated(w) == pc[w] \in {"exited", "died"}

\* ------------------------------------------------------------ Masher.work

\* Every repo of the batch taken in every wave.
WaveMatchesAny(request, req) == TRUE

\* the test of line 148: the repo belongs to the current wave
WaveMatches(request, req) == request = req

\* A join that does not wait.
JoinedAtOnce(w) == TRUE

\* thread.join() returns once the thread has terminated
Joined(w) == Terminated(w)

\* lines 138-140: publish mashtask.start, organize the updates
OrganizeUpdates ==
    /\ cpc = "organize"
    /\ mashtaskStart' = mashtaskStart + 1
    /\ releases' = organize_updates(body, db)
    /\ cpc' = "prioritize"
    /\ UNCHANGED <<envVars, db, locked, body, batches, bi, ri, wi, threads, ji, started,
                   threadVars, fsVars, now>>

\* line 143: the two batches, important first
PrioritizeUpdates ==
    /\ cpc = "prioritize"
    /\ batches' = prioritize_updates(releases, db)
    /\ bi' = 1 /\ ri' = 1 /\ wi' = 1
    /\ threads' = <<>>
    /\ cpc' = "start"
    /\ UNCHANGED <<envVars, db, locked, body, mashtaskStart, releases, ji, started,
                   threadVars, fsVars, now>>

\* MasherThread(release, request, updates, ...) followed by thread.start()
StartedThread(w, titles, res) ==
    /\ pc' = [pc EXCEPT ![w] = "init_state"]
    /\ resume' = [resume EXCEPT ![w] = res]
    /\ state' = [state EXCEPT ![w] = NewState(titles)]
    /\ updates' = [updates EXCEPT ![w] = <<>>]
    /\ started' = [started EXCEPT ![w] = @ + 1]
    /\ add_tags' = [add_tags EXCEPT ![w] = <<>>]
    /\ move_tags' = [move_tags EXCEPT ![w] = <<>>]
    /\ UNCHANGED <<success, caught, staged, path, mashing, complete, raised,
                   multicall, mash_cmds>>

\* lines 147-156: one iteration of the loop over the batch
StartThread ==
    /\ cpc = "start"
    /\ wi <= Len(batches[bi])
    /\ LET wu == batches[bi][wi]
           w == Local(<<wu.release, wu.request>>)
       IN  IF WaveMatches(wu.request, RequestOrder[ri])
           THEN /\ StartedThread(w, wu.updates, FALSE)
                /\ threads' = Append(threads, w)
           ELSE UNCHANGED <<threads, started, threadVars>>
    /\ wi' = wi + 1
    /\ UNCHANGED <<envVars, db, locked, body, cpc, mashtaskStart, releases, batches,
                   bi, ri, ji, fsVars, now>>

\* the loop over the batch is over: on to the joins of line 157
EndStart ==
    /\ cpc = "start"
    /\ wi > Len(batches[bi])
    /\ cpc' = "join"
    /\ ji' = 1
    /\ UNCHANGED <<envVars, db, locked, body, mashtaskStart, releases, batches, bi, ri, wi,
                   threads, started, threadVars, fsVars, now>>

\* A join that hands the thread's failure on to Masher.work, which gives up.
JoinThreadReraising ==
    /\ cpc = "join"
    /\ ji <= Len(threads)
    /\ Joined(threads[ji])
    /\ IF pc[threads[ji]] = "died" \/ caught[threads[ji]]
       THEN cpc' = "aborted" /\ UNCHANGED ji
       ELSE ji' = ji + 1 /\ UNCHANGED cpc
    /\ UNCHANGED <<envVars, db, locked, body, mashtaskStart, releases, batches, bi, ri,
                   wi, threads, started, threadVars, fsVars, now>>

\* lines 157-158: thread.join() of the next thread of the wave
JoinThread ==
    /\ cpc = "join"
    /\ ji <= Len(threads)
    /\ Joined(threads[ji])
    /\ ji' = ji + 1
    /\ UNCHANGED <<envVars, db, locked, body, cpc, mashtaskStart, releases, batches, bi, ri,
                   wi, threads, started, threadVars, fsVars, now>>

\* The next wave begun without waiting for the threads still to be joined.
NextWaveUnjoined ==
    /\ cpc = "join"
    /\ IF ri < Len(RequestOrder)
       THEN /\ ri' = ri + 1 /\ bi' = bi /\ wi' = 1
            /\ threads' = <<>> /\ cpc' = "start"
       ELSE IF bi < Len(batches)
            THEN /\ bi' = bi + 1 /\ ri' = 1 /\ wi' = 1
                 /\ threads' = <<>> /\ cpc' = "start"
            ELSE /\ cpc' = "complete"
                 /\ UNCHANGED <<bi, ri, wi, threads>>
    /\ UNCHANGED <<envVars, db, locked, body, mashtaskStart, releases, batches, ji,
                   started, threadVars, fsVars, now>>

\* the joins are over: next request, next batch, or 'Push complete!'
NextWave ==
    /\ cpc = "join"
    /\ ji > Len(threads)
    /\ IF ri < Len(RequestOrder)
       THEN /\ ri' = ri + 1 /\ bi' = bi /\ wi' = 1
            /\ threads' = <<>> /\ cpc' = "start"
       ELSE IF bi < Len(batches)
            THEN /\ bi' = bi + 1 /\ ri' = 1 /\ wi' = 1
                 /\ threads' = <<>> /\ cpc' = "start"
            ELSE /\ cpc' = "complete"
                 /\ UNCHANGED <<bi, ri, wi, threads>>
    /\ UNCHANGED <<envVars, db, locked, body, mashtaskStart, releases, batches, ji, started,
                   threadVars, fsVars, now>>

\* ---------------------------------------------------------- MasherThread

Goto(w, next) == pc' = [pc EXCEPT ![w] = next] /\ UNCHANGED raised

\* an exception inside the try of work(): control goes to the bare except
Raise(w) ==
    /\ pc' = [pc EXCEPT ![w] = "except"]
    /\ raised' = [raised EXCEPT ![w] = pc[w]]

\* save_state: json.dump of the thread's state into MASHING-<id>
save_state(w, st) == mash_lock' = [mash_lock EXCEPT ![Id(w)] = <<st>>]

\* The test with "not" lost: only a resuming thread is turned away.
FreshPushBlockedIfResuming(w) == mash_lock[Id(w)] # <<>> /\ resume[w]

\* the test of line 274
FreshPushBlocked(w) == mash_lock[Id(w)] # <<>> /\ ~resume[w]

\* lines 203-208: release and id, then init_state; its exception is raised
\* outside the try of work(), so the thread dies without finish()
InitState(w) ==
    /\ pc[w] = "init_state"
    /\ IF FreshPushBlocked(w) THEN Goto(w, "died") ELSE Goto(w, "init_path")
    /\ UNCHANGED <<envVars, tagVars, mash_cmds,
                   db, locked, body, coordVars, started, resume, state, success,
                   caught, staged, updates, path, mashing, complete, fsVars, now>>

\* lines 209-212: init_path, then the mashtask.mashing notification
InitPath(w) ==
    /\ pc[w] = "init_path"
    /\ path' = [path EXCEPT ![w] = <<w[2], w[3], now>>]
    /\ mashing' = mashing \cup {w}
    /\ Goto(w, "save_state")
    /\ UNCHANGED <<envVars, tagVars, mash_cmds,
                   db, locked, body, coordVars, started, resume, state, success,
                   caught, staged, updates, complete, fsVars, now>>

\* lines 214-216: success = False, and the first save_state
SaveInitialState(w) ==
    /\ pc[w] = "save_state"
    /\ success' = [success EXCEPT ![w] = FALSE]
    /\ save_state(w, state[w])
    /\ Goto(w, "load_updates")
    /\ UNCHANGED <<envVars, tagVars, mash_cmds,
                   db, locked, body, coordVars, started, resume, state, caught,
                   staged, updates, path, mashing, complete, link, now>>

\* Every title taken as it is.
ResolvedUnchecked(titles) == titles

\* load_updates: the titles of the state that still resolve
Resolved(titles) == SelectSeq(titles, LAMBDA title : db[title] # NoUpdate)

\* lines 217-219 and 235-236: load_updates, then the test of resume
LoadUpdates(w) ==
    /\ pc[w] = "load_updates"
    /\ LET found == Resolved(state[w].updates)
       IN  IF found = <<>>
           THEN Raise(w) /\ UNCHANGED updates
           ELSE /\ updates' = [updates EXCEPT ![w] = found]
                /\ IF ~resume[w] THEN Goto(w, "lock_updates") ELSE Raise(w)
    /\ UNCHANGED <<envVars, tagVars, mash_cmds,
                   db, locked, body, coordVars, started, resume, state, success,
                   caught, staged, path, mashing, complete, fsVars, now>>

\* lock_updates
LockUpdates(w) ==
    /\ pc[w] = "lock_updates"
    /\ locked' = locked \cup Range(updates[w])
    /\ Goto(w, "update_security_bugs")
    /\ UNCHANGED <<envVars, tagVars, mash_cmds,
                   db, body, coordVars, started, resume, state, success, caught,
                   staged, updates, path, mashing, complete, fsVars, now>>

\* A stage whose outcome the collaborator it calls decides: it returns, or
\* it raises.
Stage(w, here, next) ==
    /\ pc[w] = here
    /\ \E ok \in BOOLEAN : IF ok THEN Goto(w, next) ELSE Raise(w)
    /\ UNCHANGED <<envVars, tagVars, mash_cmds,
                   db, locked, body, coordVars, started, resume, state, success,
                   caught, staged, updates, path, mashing, complete, fsVars, now>>

\* A stage that raises nothing of its own.
Step(w, here, next) ==
    /\ pc[w] = here
    /\ Goto(w, next)
    /\ UNCHANGED <<envVars, tagVars, mash_cmds,
                   db, locked, body, coordVars, started, resume, state, success,
                   caught, staged, updates, path, mashing, complete, fsVars, now>>

UpdateSecurityBugs(w) == Stage(w, "update_security_bugs", "determine_tag_actions")

\* sorted_updates: the updates in the order of their titles
sorted_updates(titles) ==
    SelectSeq(titles, LAMBDA title : title = "pkg-a")
        \o SelectSeq(titles, LAMBDA title : title = "pkg-b")
        \o SelectSeq(titles, LAMBDA title : title = "pkg-c")

\* lines 307-310: the role of the tag the builds of the update are in
StatusTag(title) == IF status[title] = "testing" THEN "testing" ELSE "candidate"

\* lines 315-318: the position of the first tag of the list that is in the
\* set, 0 when the loop ends without break
RECURSIVE FirstTagIn(_, _, _)
FirstTagIn(ts, set, i) ==
    IF i > Len(ts) THEN 0
    ELSE IF ts[i] \in set THEN i ELSE FirstTagIn(ts, set, i + 1)

\* A build tagged with anything counts as found.
NoRelevantTagIfUntagged(ts, role) == ts = <<>>

\* lines 319-322: the else of the for loop, no tag of the role was found
NoRelevantTag(ts, role) == FirstTagIn(ts, tag_types(role), 1) = 0

\* The request alone decides.
AddsTagWhenStable(release, update) == update.request = "stable"

\* lines 324-325: the build gets the requested tag added, not moved
AddsTag(release, update) ==
    release_state[release] = "pending" /\ update.request = "stable"

\* the loops of lines 306 and 312: the (update, build) pairs in order
RECURSIVE BuildsOf(_)
BuildsOf(titles) ==
    IF titles = <<>> THEN <<>>
    ELSE [i \in DOMAIN builds[Head(titles)] |-> <<Head(titles), builds[Head(titles)][i]>>]
            \o BuildsOf(Tail(titles))

\* lines 312-329 for the pairs left; acc holds the two lists so far
RECURSIVE PlanFrom(_, _, _)
PlanFrom(release, pairs, acc) ==
    IF pairs = <<>> THEN acc
    ELSE LET title == Head(pairs)[1]
             nvr == Head(pairs)[2]
             from == FirstTagIn(tags[nvr], tag_types(StatusTag(title)), 1)
         IN  IF NoRelevantTag(tags[nvr], StatusTag(title))
             THEN [acc EXCEPT !.raises = TRUE]
             ELSE IF AddsTag(release, db[title])
                  THEN PlanFrom(release, Tail(pairs),
                           [acc EXCEPT !.add_tags =
                               Append(@, <<requested_tag(db[title]), nvr>>)])
                  ELSE PlanFrom(release, Tail(pairs),
                           [acc EXCEPT !.move_tags =
                               Append(@, <<IF from = 0 THEN <<>> ELSE tags[nvr][from],
                                           requested_tag(db[title]), nvr>>)])

determine_tag_actions(w, titles) ==
    PlanFrom(w[2], BuildsOf(sorted_updates(titles)),
             [add_tags |-> add_tags[w], move_tags |-> move_tags[w], raises |-> FALSE])

\* determine_tag_actions: koji answers get_tags, or the call raises
DetermineTagActions(w) ==
    /\ pc[w] = "determine_tag_actions"
    /\ \E ok \in BOOLEAN :
          IF ok
          THEN LET plan == determine_tag_actions(w, updates[w])
               IN  /\ add_tags' = [add_tags EXCEPT ![w] = plan.add_tags]
                   /\ move_tags' = [move_tags EXCEPT ![w] = plan.move_tags]
                   /\ IF plan.raises THEN Raise(w) ELSE Goto(w, "perform_tag_actions")
          ELSE Raise(w) /\ UNCHANGED <<add_tags, move_tags>>
    /\ UNCHANGED <<envVars, multicall, mash_cmds, db, locked, body, coordVars, started,
                   resume, state, success, caught, staged, updates, path, mashing,
                   complete, fsVars, now>>

\* Failed tasks are logged and the thread goes on.
IgnoresFailedTasks(failed_tasks) == FALSE

\* lines 344-345: if failed_tasks: raise
RaisesOnFailedTasks(failed_tasks) == failed_tasks

\* perform_tag_actions: one multicall of the planned tagBuild and moveBuild
\* calls, then wait_for_tasks, which names the failed tasks
PerformTagActions(w) ==
    /\ pc[w] = "perform_tag_actions"
    /\ \E failed_tasks \in BOOLEAN :
          /\ multicall' = [multicall EXCEPT ![w] =
                  Append(@, [calls |-> add_tags[w] \o move_tags[w],
                             failed |-> failed_tasks])]
          /\ IF RaisesOnFailedTasks(failed_tasks)
             THEN Raise(w) ELSE Goto(w, "save_tagged")
    /\ UNCHANGED <<envVars, add_tags, move_tags, mash_cmds, db, locked, body, coordVars,
                   started, resume, state, success, caught, staged, updates, path,
                   mashing, complete, fsVars, now>>

\* lines 224-225: tagged = True, save_state
SaveTagged(w) ==
    /\ pc[w] = "save_tagged"
    /\ state' = [state EXCEPT ![w].tagged = TRUE]
    /\ save_state(w, state'[w])
    /\ Goto(w, "expire_buildroot_overrides")
    /\ UNCHANGED <<envVars, tagVars, mash_cmds,
                   db, locked, body, coordVars, started, resume, success, caught,
                   staged, updates, path, mashing, complete, link, now>>

ExpireBuildrootOverrides(w) == Step(w, "expire_buildroot_overrides", "remove_pending_tags")
RemovePendingTags(w) == Step(w, "remove_pending_tags", "update_comps")
UpdateComps(w) == Stage(w, "update_comps", "mash")

\* mash: skip a completed repo; else run the mash command, record the path
\* in completed_repos and save_state
Mash(w) ==
    /\ pc[w] = "mash"
    /\ IF path[w] \in Range(state[w].completed_repos)
       THEN Goto(w, "generate_testing_digest") /\ UNCHANGED <<state, mash_lock, mash_cmds>>
       ELSE /\ mash_cmds' = mash_cmds \cup {<<w, path[w]>>}
            /\ \E ok \in BOOLEAN :
                  IF ok
                  THEN /\ state' = [state EXCEPT
                                      ![w].completed_repos = Append(@, path[w])]
                       /\ save_state(w, state'[w])
                       /\ Goto(w, "generate_testing_digest")
                  ELSE Raise(w) /\ UNCHANGED <<state, mash_lock>>
    /\ UNCHANGED <<envVars, tagVars, db, locked, body, coordVars, started, resume, success, caught,
                   staged, updates, path, mashing, complete, link, now>>

GenerateTestingDigest(w) == Step(w, "generate_testing_digest", "complete_requests")
CompleteRequests(w) == Step(w, "complete_requests", "generate_updateinfo")
GenerateUpdateinfo(w) == Stage(w, "generate_updateinfo", "sanity_check_repo")

\* An either/or pair is not looked for.
ArchFoundUnlessPair(arch, listing) == Len(arch) > 1 \/ arch[1] \in Range(listing)

\* lines 471-484: the directory of the arch, or of one of the pair, is there
ArchFound(arch, listing) == \E i \in DOMAIN arch : arch[i] \in Range(listing)

\* Only the first entry of the directory is looked at.
FirstEntryIsLink(files) == files # <<>> /\ Head(files).rpm /\ Head(files).islink

\* lines 495-500: the first entry named *.rpm is looked at, then break
RECURSIVE FirstRpmIsLink(_)
FirstRpmIsLink(files) ==
    IF files = <<>> THEN FALSE
    ELSE IF Head(files).rpm THEN Head(files).islink
         ELSE FirstRpmIsLink(Tail(files))

\* sanity_check_repo: the arches, their repodata (sanity_check_repodata
\* returns or raises), then the packages of arches[0]
SanityCheckRepo(w) ==
    /\ pc[w] = "sanity_check_repo"
    /\ \E repodata_ok \in BOOLEAN :
          IF /\ \A i \in DOMAIN arches_conf : ArchFound(arches_conf[i], tree[Id(w)].arches)
             /\ repodata_ok
             /\ ~FirstRpmIsLink(tree[Id(w)].pkgs)
          THEN Goto(w, "stage_repo")
          ELSE Raise(w)
    /\ UNCHANGED <<envVars, tagVars, mash_cmds, db, locked, body, coordVars, started,
                   resume, state, success, caught, staged, updates, path, mashing,
                   complete, fsVars, now>>

\* stage_repo, lines 506-511: os.path.islink(link)
StageRepo(w) ==
    /\ pc[w] = "stage_repo"
    /\ IF link[Id(w)] # <<>> THEN Goto(w, "stage_unlink") ELSE Goto(w, "stage_symlink")
    /\ UNCHANGED <<envVars, tagVars, mash_cmds,
                   db, locked, body, coordVars, started, resume, state, success,
                   caught, staged, updates, path, mashing, complete, fsVars, now>>

\* stage_repo, line 512: os.unlink(link), an OSError when the link is gone
StageUnlink(w) ==
    /\ pc[w] = "stage_unlink"
    /\ IF link[Id(w)] = <<>>
       THEN Raise(w) /\ UNCHANGED link
       ELSE /\ link' = [link EXCEPT ![Id(w)] = <<>>]
            /\ Goto(w, "stage_symlink")
    /\ UNCHANGED <<envVars, tagVars, mash_cmds,
                   db, locked, body, coordVars, started, resume, state, success,
                   caught, staged, updates, path, mashing, complete, mash_lock, now>>

\* stage_repo, lines 513-514: os.symlink(path, link), an OSError when the
\* link exists
StageSymlink(w) ==
    /\ pc[w] = "stage_symlink"
    /\ IF link[Id(w)] # <<>>
       THEN Raise(w) /\ UNCHANGED <<link, staged>>
       ELSE /\ link' = [link EXCEPT ![Id(w)] = <<path[w]>>]
            /\ staged' = [staged EXCEPT ![w] = TRUE]
            /\ Goto(w, "remove_state")
    /\ UNCHANGED <<envVars, tagVars, mash_cmds,
                   db, locked, body, coordVars, started, resume, state, success,
                   caught, updates, path, mashing, complete, mash_lock, now>>

\* lines 238-239: success = True, then remove_state: os.remove(mash_lock),
\* an OSError when the file is gone
RemoveState(w) ==
    /\ pc[w] = "remove_state"
    /\ success' = [success EXCEPT ![w] = TRUE]
    /\ IF mash_lock[Id(w)] = <<>>
       THEN Raise(w) /\ UNCHANGED mash_lock
       ELSE /\ mash_lock' = [mash_lock EXCEPT ![Id(w)] = <<>>]
            /\ Goto(w, "finish")
    /\ UNCHANGED <<envVars, tagVars, mash_cmds,
                   db, locked, body, coordVars, started, resume, state, caught,
                   staged, updates, path, mashing, complete, link, now>>

\* lines 240-242: the bare except logs the exception and saves the state
Except(w) ==
    /\ pc[w] = "except"
    /\ caught' = [caught EXCEPT ![w] = TRUE]
    /\ save_state(w, state[w])
    /\ Goto(w, "finish")
    /\ UNCHANGED <<envVars, tagVars, mash_cmds,
                   db, locked, body, coordVars, started, resume, state, success,
                   staged, updates, path, mashing, complete, link, now>>

\* lines 243-244 and finish: publish mashtask.complete; the thread ends
Finish(w) ==
    /\ pc[w] = "finish"
    /\ complete' = [complete EXCEPT ![w] = Append(@, success[w])]
    /\ Goto(w, "exited")
    /\ UNCHANGED <<envVars, tagVars, mash_cmds,
                   db, locked, body, coordVars, started, resume, state, success,
                   caught, staged, updates, path, mashing, fsVars, now>>

\* --------------------------------------------------------- the environment

\* Another masher process consumes the same push message and starts its
\* thread for the repo (fresh, or with resume set).
OtherStart(w) ==
    /\ w \in OtherWorkers
    /\ pc[w] = "new"
    /\ organize_updates(body, db)[Id(w)] # <<>>
    /\ \E res \in BOOLEAN : StartedThread(w, organize_updates(body, db)[Id(w)], res)
    /\ UNCHANGED <<envVars, db, locked, body, coordVars, fsVars, now>>

\* An update is deleted from the catalog while the push runs. The session
\* of Masher.work holds the updates until the threads are started, and a
\* thread's session holds those the thread has loaded.
DeleteUpdate(title) ==
    /\ cpc \notin {"organize", "prioritize"}
    /\ db[title] # NoUpdate
    /\ \A w \in Workers : title \notin Range(updates[w])
    /\ db' = [db EXCEPT ![title] = NoUpdate]
    /\ UNCHANGED <<envVars, locked, body, coordVars, started, threadVars, fsVars, now>>

\* A minute passes.
Tick ==
    /\ now < MaxTime
    /\ now' = now + 1
    /\ UNCHANGED <<envVars, db, locked, body, coordVars, started, threadVars, fsVars>>

\* ------------------------------------------------------- specifications

NoFiles == [key \in Keys |-> <<>>]

\* The state file a failed push of the repo left behind.
StaleState(key) == [tagged |-> TRUE, updates |-> <<"pkg-a">>, completed_repos |-> <<>>]
\* The link an earlier push of the repo staged.
OldPath(key) == <<key[1], key[2], 0>>

\* The releases, the tags of the builds and the composed trees of a push.
Deployed(states, stats, tagged, trees) ==
    /\ release_state = states
    /\ status = stats
    /\ tags = tagged
    /\ tree = trees

\* Current releases, pending updates whose builds are in the candidate tag,
\* and a mash that composes every arch with real packages.
DeployedAsUsual ==
    Deployed([release \in Releases |-> "current"], [title \in Titles |-> "pending"],
             CandidateTags, [key \in Keys |-> GoodTree])

InitWith(catalog, titles, locks, links) ==
    /\ db = catalog
    /\ locked = {}
    /\ body = titles
    /\ cpc = "organize"
    /\ mashtaskStart = 0
    /\ releases = [key \in Keys |-> <<>>]
    /\ batches = <<<<>>, <<>>>>
    /\ bi = 1 /\ ri = 1 /\ wi = 1
    /\ threads = <<>>
    /\ ji = 1
    /\ started = [w \in Workers |-> 0]
    /\ pc = [w \in Workers |-> "new"]
    /\ resume = [w \in Workers |-> FALSE]
    /\ state = [w \in Workers |-> NewState(<<>>)]
    /\ success = [w \in Workers |-> FALSE]
    /\ caught = [w \in Workers |-> FALSE]
    /\ staged = [w \in Workers |-> FALSE]
    /\ updates = [w \in Workers |-> <<>>]
    /\ path = [w \in Workers |-> <<>>]
    /\ mashing = {}
    /\ complete = [w \in Workers |-> <<>>]
    /\ raised = [w \in Workers |-> ""]
    /\ add_tags = [w \in Workers |-> <<>>]
    /\ move_tags = [w \in Workers |-> <<>>]
    /\ multicall = [w \in Workers |-> <<>>]
    /\ mash_cmds = {}
    /\ mash_lock = locks
    /\ link = links
    /\ now = 1

WorkerStep(w) ==
    \/ InitState(w) \/ InitPath(w) \/ SaveInitialState(w) \/ LoadUpdates(w)
    \/ LockUpdates(w) \/ UpdateSecurityBugs(w) \/ DetermineTagActions(w)
    \/ PerformTagActions(w) \/ SaveTagged(w) \/ ExpireBuildrootOverrides(w)
    \/ RemovePendingTags(w) \/ UpdateComps(w) \/ Mash(w)
    \/ GenerateTestingDigest(w) \/ CompleteRequests(w) \/ GenerateUpdateinfo(w)
    \/ SanityCheckRepo(w) \/ StageRepo(w) \/ StageUnlink(w) \/ StageSymlink(w)
    \/ RemoveState(w) \/ Except(w) \/ Finish(w)

CoordinatorStep ==
    \/ OrganizeUpdates \/ PrioritizeUpdates \/ StartThread \/ EndStart
    \/ JoinThread \/ NextWave

\* organize_updates and prioritize_updates over every catalog and body
InitOrganize ==
    \E catalog \in Catalogs, titles \in Bodies :
        InitWith(catalog, titles, NoFiles, NoFiles) /\ DeployedAsUsual
NextOrganize == OrganizeUpdates \/ PrioritizeUpdates
SpecOrganize == InitOrganize /\ [][NextOrganize]_vars

\* One push on its own. pkg-a asks stable and pkg-b testing on f29, both of
\* one type; pkg-c is on f30, its type and its request vary. A failed push
\* may have left the state file of f29's stable repo behind, and earlier
\* pushes staged the repos of f29.
PushCatalogs ==
    {catalog \in [Titles -> UpdateRecords] :
        /\ catalog["pkg-a"].release = "f29" /\ catalog["pkg-a"].request = "stable"
        /\ catalog["pkg-b"].release = "f29" /\ catalog["pkg-b"].request = "testing"
        /\ catalog["pkg-b"].type = catalog["pkg-a"].type
        /\ catalog["pkg-c"].release = "f30"}
PushBody == <<"pkg-a", "pkg-b", "pkg-c">>
StaleFiles == [NoFiles EXCEPT ![<<"f29", "stable">>] = <<StaleState(<<"f29", "stable">>)>>]
OldLinks == [key \in Keys |-> <<OldPath(key)>>]
SomeLinks == [key \in Keys |-> IF key[1] = "f29" THEN <<OldPath(key)>> ELSE <<>>]

Init ==
    \E catalog \in PushCatalogs, locks \in {NoFiles, StaleFiles} :
        InitWith(catalog, PushBody, locks, SomeLinks) /\ DeployedAsUsual
Next == CoordinatorStep \/ \E w \in Workers : WorkerStep(w)
Spec == Init /\ [][Next]_vars

\* The threads and the coordinator are scheduled: a step that stays possible
\* is taken.
FairSpec == Spec /\ WF_vars(Next)

\* Two pushes of the same message overlap: this masher's thread for f29's
\* stable repo and the thread another masher process starts for it.
OverlapCatalogs ==
    {catalog \in Catalogs :
        /\ catalog["pkg-a"] # NoUpdate
        /\ catalog["pkg-a"].release = "f29" /\ catalog["pkg-a"].request = "stable"
        /\ catalog["pkg-b"] = NoUpdate /\ catalog["pkg-c"] = NoUpdate}
InitOverlap ==
    \E catalog \in OverlapCatalogs,
       locks \in {NoFiles, StaleFiles}, links \in {NoFiles, OldLinks} :
        InitWith(catalog, <<"pkg-a">>, locks, links) /\ DeployedAsUsual
NextOverlap == Next \/ (\E w \in OtherWorkers : OtherStart(w)) \/ Tick
SpecOverlap == InitOverlap /\ [][NextOverlap]_vars

\* The planner on its own: one push of pkg-b and pkg-a, both of one repo of
\* f29, stable or testing; the state of f29, the status of pkg-a and the tags
\* of the builds vary: any list for a-1, no tag or one for a-2, the candidate
\* tag or the stable tag for b-1.
TagCatalogs ==
    {catalog \in Catalogs :
        /\ catalog["pkg-a"] # NoUpdate
        /\ catalog["pkg-a"].release = "f29" /\ catalog["pkg-a"].type = "bugfix"
        /\ catalog["pkg-b"] = catalog["pkg-a"]
        /\ catalog["pkg-c"] = NoUpdate}
\* The tags a build of f29 may carry, and the lists of them koji returns.
TagsSeen == {<<"f29", "candidate">>, <<"f30", "candidate">>, <<"f29", "testing">>,
             <<"f29", "stable">>}
TagLists == {ts \in SeqsUpTo(TagsSeen, MaxTags) : Cardinality(Range(ts)) = Len(ts)}
InitTags ==
    \E catalog \in TagCatalogs, f29 \in ReleaseStates, stat \in Statuses,
       a1 \in TagLists, a2 \in {ts \in TagLists : Len(ts) <= 1},
       b1 \in {<< <<"f29", "candidate">> >>, << <<"f29", "stable">> >>} :
        /\ InitWith(catalog, <<"pkg-b", "pkg-a">>, NoFiles, SomeLinks)
        /\ Deployed([release \in Releases |-> IF release = "f29" THEN f29 ELSE "current"],
                    [title \in Titles |-> IF title = "pkg-a" THEN stat ELSE "pending"],
                    [nvr \in Nvrs |->
                        IF nvr = "a-1" THEN a1
                        ELSE IF nvr = "a-2" THEN a2
                        ELSE IF nvr = "b-1" THEN b1 ELSE CandidateTags[nvr]],
                    [key \in Keys |-> GoodTree])
SpecTags == InitTags /\ [][Next]_vars


\* The sanity check on its own: one push of pkg-a into f29's stable repo;
\* what mash composes there varies over the listings of the working
\* directory and of its first entry.
DirLists == {ds \in SeqsUpTo(ArchDirs, Cardinality(ArchDirs)) :
                Cardinality(Range(ds)) = Len(ds)}
Trees == {t \in [arches : DirLists, pkgs : SeqsUpTo(Files, MaxPkgs)] :
             t.arches = <<>> => t.pkgs = <<>>}
InitSanity ==
    \E catalog \in OverlapCatalogs, links \in {NoFiles, OldLinks}, composed \in Trees :
        /\ InitWith(catalog, <<"pkg-a">>, NoFiles, links)
        /\ Deployed([release \in Releases |-> "current"],
                    [title \in Titles |-> "pending"], CandidateTags,
                    [key \in Keys |-> IF key = <<"f29", "stable">> THEN composed
                                      ELSE GoodTree])
SpecSanity == InitSanity /\ [][Next]_vars


\* One push of pkg-a and pkg-b into f29's stable repo, while updates are
\* deleted from the catalog.
DeleteCatalogs ==
    {catalog \in Catalogs :
        /\ catalog["pkg-a"] # NoUpdate
        /\ catalog["pkg-a"].release = "f29" /\ catalog["pkg-a"].request = "stable"
        /\ catalog["pkg-b"] # NoUpdate
        /\ catalog["pkg-b"].release = "f29" /\ catalog["pkg-b"].request = "stable"
        /\ catalog["pkg-c"] = NoUpdate}
InitDelete ==
    \E catalog \in DeleteCatalogs :
        InitWith(catalog, <<"pkg-a", "pkg-b">>, NoFiles, SomeLinks) /\ DeployedAsUsual
NextDelete == Next \/ \E title \in Titles : DeleteUpdate(title)
SpecDelete == InitDelete /\ [][NextDelete]_vars


\* -------------------------------------------------------------- properties

Count(seq, x) == Cardinality({i \in DOMAIN seq : seq[i] = x})
BatchKeys(batch) == [i \in DOMAIN batch |-> <<batch[i].release, batch[i].request>>]

C5_ImportantIffOwnSecurity ==
    cpc = "start" =>
        LET imp == BatchKeys(batches[1])
            norm == BatchKeys(batches[2])
        IN  /\ \A key \in Keys :
                 LET own == \E title \in Range(releases[key]) :
                                db[title].type = "security"
                 IN  /\ Count(imp, key) =
                            (IF releases[key] # <<>> /\ own THEN 1 ELSE 0)
                     /\ Count(norm, key) =
                            (IF releases[key] # <<>> /\ ~own THEN 1 ELSE 0)
            /\ \A i \in DOMAIN batches[1] :
                 batches[1][i].updates = releases[imp[i]]
            /\ \A i \in DOMAIN batches[2] :
                 batches[2][i].updates = releases[norm[i]]
            /\ \A title \in Titles :
                 (db[title] # NoUpdate /\ db[title].type = "security") =>
                    LET key == <<db[title].release, db[title].request>>
                        more == prioritize_updates(
                                    [releases EXCEPT ![key] = Append(@, title)], db)
                    IN  /\ key \in Range(BatchKeys(more[1]))
                        /\ \A other \in Keys \ {key} :
                              /\ other \in Range(BatchKeys(more[1])) <=> other \in Range(imp)
                              /\ other \in Range(BatchKeys(more[2])) <=> other \in Range(norm)

\* C5 witness: of two repos of one release, one is important and the other
\* normal.
C5_Witness ==
    /\ cpc = "start"
    /\ \E i \in DOMAIN batches[1], j \in DOMAIN batches[2] :
          batches[1][i].release = batches[2][j].release

InBatch(b, w) == \E i \in DOMAIN batches[b] : BatchKeys(batches[b])[i] = Id(w)
Running(w) == pc[w] \notin {"new", "exited", "died"}

\* C1: no thread of a repo of the normal batch is started until every thread
\* of every repo of the important batch, stable and testing, has terminated.
C1_ImportantBeforeNormal ==
    \A n, m \in LocalWorkers :
        (InBatch(2, n) /\ InBatch(1, m) /\ started[n] > 0) =>
            (started[m] > 0 /\ pc[m] \in {"exited", "died"})

\* C1 witness: a normal repo's thread has been started after an important
\* stable and an important testing thread terminated.
C1_Witness ==
    /\ \E n \in LocalWorkers : InBatch(2, n) /\ started[n] > 0
    /\ \E m \in LocalWorkers : InBatch(1, m) /\ m[3] = "stable" /\ pc[m] = "exited"
    /\ \E m \in LocalWorkers : InBatch(1, m) /\ m[3] = "testing" /\ pc[m] = "exited"

\* C2: within a batch the testing threads are started only after every
\* stable thread of the batch was started and has terminated; while the
\* coordinator is in the testing wave of a batch, every stable repo of the
\* batch has been run; and two threads that run at the same time belong to
\* the same batch and the same request.
C2_WaveBarrier ==
    /\ \A b \in {1, 2} : \A s, t \in LocalWorkers :
          (InBatch(b, s) /\ InBatch(b, t) /\ s[3] = "stable" /\ t[3] = "testing"
              /\ started[t] > 0) =>
                (started[s] > 0 /\ pc[s] \in {"exited", "died"})
    /\ (cpc \in {"start", "join"} /\ ri = 2) =>
          \A s \in LocalWorkers :
              (InBatch(bi, s) /\ s[3] = "stable") =>
                  (started[s] = 1 /\ pc[s] \in {"exited", "died"})
    /\ \A v, w \in LocalWorkers :
          (Running(v) /\ Running(w)) =>
              /\ v[3] = w[3]
              /\ \A b \in {1, 2} : InBatch(b, v) <=> InBatch(b, w)

\* C2 witness: in one batch a stable thread has terminated and two testing
\* threads run at the same time.
C2_Witness ==
    \E b \in {1, 2} : \E s, t1, t2 \in LocalWorkers :
        /\ InBatch(b, s) /\ InBatch(b, t1) /\ InBatch(b, t2)
        /\ s[3] = "stable" /\ t1[3] = "testing" /\ t2[3] = "testing" /\ t1 # t2
        /\ pc[s] = "exited" /\ Running(t1) /\ Running(t2)

\* The push is over: 'Push complete!' is logged, and every repo was started
\* once and has terminated.
PushComplete ==
    /\ cpc = "complete"
    /\ \A w \in LocalWorkers :
          IF releases[Id(w)] # <<>>
          THEN started[w] = 1 /\ pc[w] \in {"exited", "died"}
          ELSE started[w] = 0

\* C3: whatever threads fail, rejected by init_state or at a later stage,
\* no repo is started twice and, the threads being scheduled, the
\* coordinator reaches the end of the push with every repo started once and
\* terminated.
C3_FailureIsolation ==
    /\ [](\A w \in LocalWorkers : started[w] <= 1)
    /\ <>[]PushComplete

\* C3 witness: the push is complete; the first wave's thread that init_state
\* rejected has a sibling of its wave that succeeded, and a thread of a
\* later wave failed at a stage while another later thread succeeded.
C3_Witness ==
    /\ PushComplete
    /\ \E r, s \in LocalWorkers :
          /\ r # s /\ r[3] = s[3] /\ (\A b \in {1, 2} : InBatch(b, r) <=> InBatch(b, s))
          /\ pc[r] = "died" /\ pc[s] = "exited" /\ complete[s] = <<TRUE>>
          /\ \E f \in LocalWorkers :
                /\ f[3] = "testing" /\ r[3] = "stable"
                /\ caught[f] /\ complete[f] = <<FALSE>>

Fresh(w) == started[w] > 0 /\ ~resume[w]
Peers(w) == {v \in Workers : v # w /\ Id(v) = Id(w)}

\* The stages of work() after init_state, up to remove_state and the except
\* clause.
PipelinePcs ==
    {"init_path", "save_state", "load_updates", "lock_updates",
     "update_security_bugs", "determine_tag_actions", "perform_tag_actions",
     "save_tagged", "expire_buildroot_overrides", "remove_pending_tags",
     "update_comps", "mash", "generate_testing_digest", "complete_requests",
     "generate_updateinfo", "sanity_check_repo", "stage_repo", "stage_unlink",
     "stage_symlink", "remove_state", "except"}
\* The stages between the first save_state and remove_state.
SavedPcs == PipelinePcs \ {"init_path", "save_state", "except"}

\* C6: the state file of a fresh thread's id exists from the thread's first
\* save_state until its remove_state; the step that brings the thread to
\* Done leaves no file, and the step of the except clause leaves the file.
C6_StateFileWhileRunning ==
    /\ [](\A w \in Workers :
            (Fresh(w) /\ pc[w] \in SavedPcs) => mash_lock[Id(w)] # <<>>)
    /\ [][\A w \in Workers :
            /\ (pc[w] = "remove_state" /\ pc'[w] = "finish") =>
                    mash_lock'[Id(w)] = <<>>
            /\ (pc[w] = "except" /\ pc'[w] = "finish") =>
                    mash_lock'[Id(w)] # <<>>]_vars

\* C7: two fresh threads of one id are never both past init_state and still
\* in the pipeline.
C7_MutualExclusion ==
    \A w \in Workers : \A v \in Peers(w) :
        ~(Fresh(w) /\ Fresh(v) /\ pc[w] \in PipelinePcs /\ pc[v] \in PipelinePcs)

\* C8: the init_state of a fresh thread that finds the state file of its id
\* ends the thread there: the step locks no update and leaves the file, the
\* staging link and the notifications as they are, the thread stays dead,
\* and a dead thread has loaded, saved, staged and published nothing.
C8_FreshPushRejected ==
    /\ [](\A w \in Workers :
            pc[w] = "died" =>
                /\ updates[w] = <<>> /\ path[w] = <<>> /\ w \notin mashing
                /\ complete[w] = <<>> /\ ~staged[w] /\ ~caught[w]
                /\ ~state[w].tagged /\ state[w].completed_repos = <<>>)
    /\ [][\A w \in Workers :
            /\ (pc[w] = "init_state" /\ ~resume[w] /\ mash_lock[Id(w)] # <<>>
                  /\ pc'[w] # "init_state") =>
                    /\ pc'[w] = "died"
                    /\ mash_lock' = mash_lock /\ link' = link
                    /\ locked' = locked /\ complete' = complete
            /\ pc[w] = "died" => pc'[w] = "died"]_vars

\* C8 witness: a fresh thread rejected by init_state, the stale state file
\* of its id still in place with its content.
C8_Witness ==
    \E w \in Workers :
        /\ Fresh(w) /\ pc[w] = "died"
        /\ mash_lock[Id(w)] = <<StaleState(Id(w))>>

\* C9: a thread that raised inside the try of work() runs no later stage
\* (from the except clause it only finishes), its except step leaves the
\* state file holding its state, it publishes one mashtask.complete, with
\* success false, and it has not staged its repo.
C9_FailureOutcome ==
    /\ [](\A w \in Workers :
            /\ (pc[w] = "except" \/ caught[w]) => ~staged[w]
            /\ Len(complete[w]) <= 1
            /\ (pc[w] = "exited" /\ caught[w]) => complete[w] = <<FALSE>>)
    /\ [][\A w \in Workers :
            /\ (pc[w] = "except" /\ pc'[w] # "except") =>
                    /\ pc'[w] = "finish"
                    /\ mash_lock'[Id(w)] = <<state[w]>>
            /\ (pc[w] = "finish" /\ caught[w] /\ pc'[w] # "finish") =>
                    pc'[w] = "exited"]_vars

\* C10: a thread publishes success true iff stage_repo returned, and then
\* its remove_state has deleted the state file (the except clause, which
\* saves the file again, was not entered).
C10_SuccessOutcome ==
    \A w \in Workers :
        complete[w] # <<>> =>
            /\ complete[w] = <<TRUE>> <=> staged[w]
            /\ complete[w] = <<TRUE>> => ~caught[w]

\* The tags of the role the builds of the update are expected in.
PhaseTags(title) ==
    {tag \in Tags : tag[2] = (IF status[title] = "testing" THEN "testing" ELSE "candidate")}
\* The first tag of the build that is a phase tag of the update.
IsCurrentTag(tag, title, nvr) ==
    \E i \in DOMAIN tags[nvr] :
        /\ tags[nvr][i] = tag /\ tag \in PhaseTags(title)
        /\ \A j \in 1..(i - 1) : tags[nvr][j] \notin PhaseTags(title)
TagRuleAdds(w, title) == release_state[w[2]] = "pending" /\ db[title].request = "stable"
BuildPairs(w) == {<<title, nvr>> \in Titles \X Nvrs :
                     title \in Range(updates[w]) /\ nvr \in Range(builds[title])}

\* C11: what determine_tag_actions has put in add_tags is, for a build of an
\* update of the thread, the pair (requested tag, build), and then the
\* release is pending and the update asks stable; what it has put in
\* move_tags is (first tag of the build in the phase set, requested tag,
\* build), and then the release is not pending or the request is not stable.
\* When it returns, every build of every update has one action, and no
\* other action is planned.
C11_TagActionRule ==
    \A w \in Workers :
        /\ \A i \in DOMAIN add_tags[w] :
              \E pair \in BuildPairs(w) :
                  /\ add_tags[w][i] =
                        << <<db[pair[1]].release, db[pair[1]].request>>, pair[2] >>
                  /\ TagRuleAdds(w, pair[1])
        /\ \A i \in DOMAIN move_tags[w] :
              \E pair \in BuildPairs(w) :
                  /\ move_tags[w][i][2] = <<db[pair[1]].release, db[pair[1]].request>>
                  /\ move_tags[w][i][3] = pair[2]
                  /\ IsCurrentTag(move_tags[w][i][1], pair[1], pair[2])
                  /\ ~TagRuleAdds(w, pair[1])
        /\ pc[w] = "perform_tag_actions" =>
              /\ Len(add_tags[w]) + Len(move_tags[w]) = Cardinality(BuildPairs(w))
              /\ \A pair \in BuildPairs(w) :
                    IF TagRuleAdds(w, pair[1])
                    THEN \E i \in DOMAIN add_tags[w] : add_tags[w][i][2] = pair[2]
                    ELSE \E i \in DOMAIN move_tags[w] : move_tags[w][i][3] = pair[2]

\* C11 witness: the release is pending and the thread's updates ask testing;
\* planning returned three moves, one of them for a build that carries two
\* tags of its phase, moved from the first.
C11_Witness ==
    \E w \in Workers :
        /\ pc[w] = "perform_tag_actions"
        /\ release_state[w[2]] = "pending" /\ w[3] = "testing"
        /\ Len(move_tags[w]) = 3 /\ add_tags[w] = <<>>
        /\ \E i \in DOMAIN move_tags[w] :
              LET nvr == move_tags[w][i][3]
              IN  /\ Len(tags[nvr]) = 2
                  /\ \A j \in DOMAIN tags[nvr] : tags[nvr][j][2] = "candidate"
                  /\ move_tags[w][i][1] = tags[nvr][1]

\* C12: a mash step of a thread whose path is in completed_repos runs no
\* mash command and leaves the thread's state and the state file as they
\* are; a mash step that runs the command and goes on has appended the path
\* to completed_repos and saved the state; and the mash command is run at
\* most once for a path.
C12_MashOncePerPath ==
    /\ [](\A w \in Workers :
            Cardinality({cmd \in mash_cmds : cmd[2] = path[w]}) <= 1)
    /\ [][\A w \in Workers :
            (pc[w] = "mash" /\ pc'[w] # "mash") =>
                IF path[w] \in Range(state[w].completed_repos)
                THEN /\ mash_cmds' = mash_cmds /\ state'[w] = state[w]
                     /\ mash_lock' = mash_lock
                ELSE /\ <<w, path[w]>> \in mash_cmds'
                     /\ pc'[w] # "except" =>
                          /\ state'[w].completed_repos =
                                Append(state[w].completed_repos, path[w])
                          /\ mash_lock'[Id(w)] = <<state'[w]>>]_vars

\* The stages of stage_repo and what follows it.
StagePcs == {"stage_repo", "stage_unlink", "stage_symlink", "remove_state"}
\* Every configured arch, or one name of its pair, is in the listing.
ArchesComplete(listing) ==
    \A i \in DOMAIN arches_conf : Range(arches_conf[i]) \cap Range(listing) # {}

\* C13: a thread is in stage_repo, or past it, only with every configured
\* arch (one of the two for a pair) in its working directory; the link of
\* an id changes only in a step of stage_repo of such a thread; a sanity
\* check that finds an arch missing raises without touching the link; and a
\* thread that ended on a failed sanity check has not staged, published
\* success false, and left the state file with its state.
C13_StagedOnlyAfterSanity ==
    /\ [](\A w \in Workers :
            /\ (pc[w] \in StagePcs \/ staged[w]) => ArchesComplete(tree[Id(w)].arches)
            /\ (pc[w] = "exited" /\ raised[w] = "sanity_check_repo") =>
                  /\ ~staged[w] /\ complete[w] = <<FALSE>>
                  /\ mash_lock[Id(w)] = <<state[w]>>)
    /\ [][/\ \A key \in Keys :
               link'[key] # link[key] =>
                  \E w \in Workers :
                      /\ Id(w) = key /\ pc[w] \in {"stage_unlink", "stage_symlink"}
                      /\ ArchesComplete(tree[key].arches)
          /\ \A w \in Workers :
               (pc[w] = "sanity_check_repo" /\ pc'[w] # pc[w]
                   /\ ~ArchesComplete(tree[Id(w)].arches)) =>
                      pc'[w] = "except" /\ link' = link /\ mash_lock' = mash_lock]_vars

\* C13 witness: x86_64 is missing from a working directory that has the
\* rest; the thread composed the repo, failed the sanity check and ended,
\* the old link and the state file in place.
C13_Witness ==
    \E w \in Workers :
        /\ pc[w] = "exited" /\ raised[w] = "sanity_check_repo"
        /\ tree[Id(w)].arches = <<"ppc64", "ppc">>
        /\ state[w].completed_repos = <<path[w]>>
        /\ link[Id(w)] = <<OldPath(Id(w))>>
        /\ mash_lock[Id(w)] = <<state[w]>>

\* C18 as stated: a thread is in stage_repo, or past it, only if no package
\* of the directory the sanity check inspects is a symbolic link.
C18_NoSymlinkedPackage ==
    \A w \in Workers :
        (pc[w] \in StagePcs \/ staged[w]) =>
            \A i \in DOMAIN tree[Id(w)].pkgs :
                tree[Id(w)].pkgs[i].rpm => ~tree[Id(w)].pkgs[i].islink

\* The first entry of the listing whose name ends with .rpm, if any, is a
\* symbolic link.
FirstPackageLinked(files) ==
    \E i \in DOMAIN files :
        /\ files[i].rpm /\ files[i].islink
        /\ \A j \in 1..(i - 1) : ~files[j].rpm

\* C18, amended: the sanity check looks at one package, the first *.rpm
\* entry of the listing of the first entry of the working directory. A
\* thread is in stage_repo, or past it, only if that package is not a
\* symbolic link, and a sanity check that finds it one raises; a link among
\* the later packages does not stop the thread.
C18_FirstPackageChecked ==
    /\ [](\A w \in Workers :
            (pc[w] \in StagePcs \/ staged[w]) => ~FirstPackageLinked(tree[Id(w)].pkgs))
    /\ [][\A w \in Workers :
            (pc[w] = "sanity_check_repo" /\ pc'[w] # pc[w]
                /\ FirstPackageLinked(tree[Id(w)].pkgs)) =>
                   pc'[w] = "except" /\ link' = link]_vars

\* C18 witness: the arches are all there, the first entry of the inspected
\* directory is no package and the first package is a symbolic link; the
\* thread failed the sanity check and ended without staging.
C18_Witness ==
    \E w \in Workers :
        /\ pc[w] = "exited" /\ raised[w] = "sanity_check_repo" /\ ~staged[w]
        /\ ArchesComplete(tree[Id(w)].arches)
        /\ Len(tree[Id(w)].pkgs) = 2
        /\ ~tree[Id(w)].pkgs[1].rpm
        /\ tree[Id(w)].pkgs[2].rpm /\ tree[Id(w)].pkgs[2].islink

\* Done: one mashtask.complete with success true, the state file removed.
Done(w) == complete[w] = <<TRUE>> /\ mash_lock[Id(w)] = <<>>
\* Failed: one mashtask.complete with success false, the state file kept.
Failed(w) == complete[w] = <<FALSE>> /\ mash_lock[Id(w)] = <<state[w]>>

\* C14: every thread Masher.work started ends, the threads being scheduled,
\* and a thread that has ended is Done or Failed: it has published one
\* mashtask.complete.
C14_WorkerTerminates ==
    /\ [](\A w \in LocalWorkers :
            (started[w] > 0 /\ Terminated(w)) => (Done(w) \/ Failed(w)))
    /\ \A w \in LocalWorkers : [](started[w] > 0 => <>Terminated(w))

\* The thread submitted one multicall and no task of it failed.
TaggingDone(w) == Len(multicall[w]) = 1 /\ ~multicall[w][1].failed
\* The thread submitted a multicall a task of which failed.
TaggingFailed(w) == \E i \in DOMAIN multicall[w] : multicall[w][i].failed

\* C15: the state of a thread, and the state file of an id, has tagged true
\* only after a thread (of that id) submitted one multicall, holding all its
\* planned actions, and no task failed. A thread with a failed tag task is
\* in the except clause or past it: it has not set tagged, not run mash, not
\* staged, and once ended it has published success false and left the state
\* file with tagged false.
C15_TaggedOnlyAfterTagging ==
    /\ \A w \in Workers :
          /\ Len(multicall[w]) <= 1
          /\ state[w].tagged =>
                (TaggingDone(w) /\ multicall[w][1].calls = add_tags[w] \o move_tags[w])
          /\ TaggingFailed(w) =>
                /\ pc[w] \in {"except", "finish", "exited"}
                /\ raised[w] = "perform_tag_actions"
                /\ ~state[w].tagged /\ ~staged[w]
                /\ \A cmd \in mash_cmds : cmd[1] # w
                /\ pc[w] = "exited" =>
                      /\ complete[w] = <<FALSE>>
                      /\ mash_lock[Id(w)] = <<state[w]>>
    /\ \A key \in Keys :
          (mash_lock[key] # <<>> /\ mash_lock[key][1].tagged) =>
              \E w \in Workers : Id(w) = key /\ TaggingDone(w)

\* C15 witness: a thread whose multicall of three moves had a failed task
\* has ended; its state file says tagged false.
C15_Witness ==
    \E w \in Workers :
        /\ pc[w] = "exited" /\ TaggingFailed(w)
        /\ Len(multicall[w][1].calls) = 3 /\ add_tags[w] = <<>>
        /\ mash_lock[Id(w)] # <<>> /\ ~mash_lock[Id(w)][1].tagged

\* Some build of an update the thread loaded has no tag of the update's phase.
Inconsistent(w) ==
    \E pair \in BuildPairs(w) : Range(tags[pair[2]]) \cap PhaseTags(pair[1]) = {}

\* C16: a thread one of whose builds has no tag of its phase submits no
\* multicall at all and never sets tagged; it gets no further than
\* determine_tag_actions, which raises; once ended it has published success
\* false and left the state file with tagged false.
C16_PlanningAllOrNothing ==
    /\ [](\A w \in Workers :
            Inconsistent(w) =>
                /\ multicall[w] = <<>> /\ ~state[w].tagged
                /\ pc[w] \in {"load_updates", "lock_updates", "update_security_bugs",
                              "determine_tag_actions", "except", "finish", "exited"}
                /\ pc[w] = "exited" =>
                      /\ complete[w] = <<FALSE>>
                      /\ mash_lock[Id(w)] = <<state[w]>>)
    /\ [][\A w \in Workers :
            (Inconsistent(w) /\ pc[w] = "determine_tag_actions" /\ pc'[w] # pc[w]) =>
                pc'[w] = "except" /\ multicall' = multicall]_vars

\* C16 witness: planning got through two builds and raised at the third;
\* the thread has ended with no multicall submitted and a state file that
\* says tagged false.
C16_Witness ==
    \E w \in Workers :
        /\ Inconsistent(w)
        /\ pc[w] = "exited" /\ raised[w] = "determine_tag_actions"
        /\ Len(add_tags[w]) + Len(move_tags[w]) = 2
        /\ multicall[w] = <<>>
        /\ mash_lock[Id(w)] = <<state[w]>> /\ ~state[w].tagged

\* The titles of the thread's state that resolve in the catalog.
Resolving(w) == {title \in Range(state[w].updates) : db[title] # NoUpdate}

\* C17: load_updates keeps the titles of the state that resolve and drops
\* the others, and locks nothing; when none resolves it raises. lock_updates
\* locks the updates kept, and no others. A thread whose load_updates found
\* no update has locked nothing, planned no tag action and submitted no
\* multicall, and once ended it has published success false and left the
\* state file.
C17_UpdatesLocked ==
    /\ [](\A w \in Workers :
            /\ pc[w] \in SavedPcs \ {"load_updates", "lock_updates"} =>
                  Range(updates[w]) \subseteq locked
            /\ (raised[w] = "load_updates" /\ ~resume[w]) =>
                  /\ updates[w] = <<>> /\ locked \cap Range(state[w].updates) = {}
                  /\ add_tags[w] = <<>> /\ move_tags[w] = <<>> /\ multicall[w] = <<>>
                  /\ pc[w] = "exited" =>
                        /\ complete[w] = <<FALSE>>
                        /\ mash_lock[Id(w)] = <<state[w]>>)
    /\ [](\A title \in locked : \E w \in Workers : title \in Range(updates[w]))
    /\ [][\A w \in Workers :
            /\ (pc[w] = "load_updates" /\ pc'[w] # pc[w]) =>
                  /\ locked' = locked
                  /\ IF Resolving(w) = {}
                     THEN pc'[w] = "except" /\ updates'[w] = <<>>
                     ELSE /\ Range(updates'[w]) = Resolving(w)
                          /\ ~resume[w] => pc'[w] = "lock_updates"
            /\ (pc[w] = "lock_updates" /\ pc'[w] # pc[w]) =>
                  locked' = locked \cup Range(updates[w])]_vars

\* C17 witness: both updates of the thread were deleted before it loaded
\* them; the thread has ended, nothing is locked, and its state file still
\* lists both titles.
C17_Witness ==
    \E w \in Workers :
        /\ pc[w] = "exited" /\ raised[w] = "load_updates"
        /\ Len(state[w].updates) = 2 /\ Resolving(w) = {}
        /\ locked = {} /\ multicall[w] = <<>>
        /\ mash_lock[Id(w)] = <<state[w]>>

\* C19: a staging link that exists is never seen missing: a step leaves it
\* as it is or leaves it pointing at the path of the thread that replaces
\* it; and the step with which stage_repo returns leaves the link of the
\* thread's id pointing at the thread's path.
C19_AtomicLinkReplacement ==
    [][/\ \A key \in Keys :
            link[key] # <<>> =>
                \/ link'[key] = link[key]
                \/ \E w \in Workers : Id(w) = key /\ link'[key] = <<path[w]>>
       /\ \A w \in Workers :
            (~staged[w] /\ staged'[w]) => link'[Id(w)] = <<path[w]>>]_vars

\* C20: a state file that a resuming thread finds keeps the tagged flag and
\* the completed_repos it recorded: no step of the thread lowers tagged or
\* shortens completed_repos in the file, or removes the file.
C20_ResumeKeepsProgress ==
    [][\A w \in Workers :
          (resume[w] /\ pc[w] \in PipelinePcs /\ pc'[w] # pc[w]
              /\ mash_lock[Id(w)] # <<>>) =>
                /\ mash_lock'[Id(w)] # <<>>
                /\ mash_lock[Id(w)][1].tagged => mash_lock'[Id(w)][1].tagged
                /\ Len(mash_lock'[Id(w)][1].completed_repos)
                      >= Len(mash_lock[Id(w)][1].completed_repos)]_vars

\* C21 as stated: no thread of a testing repo is started until every thread
\* of a stable repo of the push, of either batch, was started and has
\* terminated.
C21_StableBeforeTestingAcrossPush ==
    \A s, t \in LocalWorkers :
        (s[3] = "stable" /\ t[3] = "testing" /\ started[t] > 0
            /\ (InBatch(1, s) \/ InBatch(2, s))) =>
                (started[s] > 0 /\ Terminated(s))

\* The place of a repo's thread in the order of the waves: the stable and
\* the testing wave of the important batch, then those of the normal one.
WaveOf(w) ==
    (IF InBatch(1, w) THEN 0 ELSE 2) + (IF w[3] = "stable" THEN 1 ELSE 2)

\* C21, amended: stable comes before testing within a batch only. The
\* threads run in four waves, important stable, important testing, normal
\* stable, normal testing: a thread is started only when every thread of an
\* earlier wave was started and has terminated.
C21_StableBeforeTestingPerBatch ==
    \A v, w \in LocalWorkers :
        ((InBatch(1, v) \/ InBatch(2, v)) /\ (InBatch(1, w) \/ InBatch(2, w))
            /\ WaveOf(v) < WaveOf(w) /\ started[w] > 0) =>
                (started[v] > 0 /\ Terminated(v))

\* C21 witness: the testing thread of the important batch has run to its
\* end, after the important stable one, and the stable thread of the normal
\* batch, started after it, is still running.
C21_Witness ==
    \E s1, t1, s2 \in LocalWorkers :
        /\ InBatch(1, s1) /\ s1[3] = "stable" /\ pc[s1] = "exited"
        /\ InBatch(1, t1) /\ t1[3] = "testing" /\ pc[t1] = "exited"
        /\ InBatch(2, s2) /\ s2[3] = "stable" /\ Running(s2)

====
